---- MODULE Spec2Model ----
(***************************************************************************)
(* A model of the MMLU evaluation harness of src/eval_mmlu.py: the answer  *)
(* extractor (extract_answer), the per-dataset evaluation loop             *)
(* (evaluate_dataset, with call_api as its one external call) and the      *)
(* aggregation over the dataset files (main).                              *)
(*                                                                         *)
(* A str is a sequence of characters, each character a string: itself for   *)
(* printable ASCII and for the escapes \t \n \r \f, its code point          *)
(* ("U+7B54") for every other character.  Python's None is the sequence    *)
(* <<"None">>, whose one element is no character: it differs from every    *)
(* str, the str 'None' (four characters) and the empty str included.       *)
(***************************************************************************)
EXTENDS Integers, Sequences, FiniteSets, TLC

\* ------------------------------------------------------------------- state

VARIABLES
  ex_response,   \* extract_answer's argument
  ex_result,     \* what it returned
  ex_pc,         \* "call" before the call, "done" after it
  entry,         \* what is run: "evaluate_dataset" (one call of it) or "main"
  sample_size,   \* sample_size, of the call or of the arguments
  pc,            \* "call": before evaluate_dataset; "rows": in its row loop;
                 \* "ret": it has returned; "main": at the head of main's loop;
                 \* "done": main has written the overall result; "raised":
                 \* main has ended with an exception
  fieldnames,    \* reader.fieldnames of the last file read
  file_rows,     \* len(rows) as read from the file, before sampling
  rows,          \* evaluate_dataset's rows, when entry = "evaluate_dataset"
  i,             \* how many rows the row loop has taken, likewise
  results,       \* evaluate_dataset's results, likewise
  ret,           \* the return statement the last evaluate_dataset left by
  calls,         \* the requests posted by the last evaluate_dataset
  nfiles,        \* how many entries of dataset_files main's loop has taken
  dataset_name,  \* main's dataset_name
  returns,       \* the return statements of main's evaluate_dataset calls so far
  overall_results

ex_vars == <<ex_response, ex_result, ex_pc>>

call_vars == <<fieldnames, file_rows, rows, i, results, ret, calls>>

main_vars == <<nfiles, dataset_name, returns, overall_results>>

vars == <<ex_vars, entry, sample_size, pc, call_vars, main_vars>>

\* ------------------------------------------------------------------ bounds

\* The most fragments a generated response text is made of.
MaxParts == 3

\* The most data lines a dataset file holds.
MaxRows == 2

\* The most dataset files a run iterates over.
MaxFiles == 2

\* ------------------------------------------------------------- characters

None == <<"None">>

\* ['A', 'B', 'C', 'D'], as characters and as strs of one character.
Letters == {"A", "B", "C", "D"}

Choices == {<<c>> : c \in Letters}

\* str.isspace, which is what str.strip and the regular expressions' \s go by:
\* all 29 characters of it.  \r and \f are written as escapes or by code point.
Whitespace ==
  {" ", "\t", "\n", "\r", "\f", "U+000B", "U+000C", "U+000D",
   "U+001C", "U+001D", "U+001E", "U+001F", "U+0085", "U+00A0", "U+1680",
   "U+2000", "U+2001", "U+2002", "U+2003", "U+2004", "U+2005", "U+2006",
   "U+2007", "U+2008", "U+2009", "U+200A", "U+2028", "U+2029", "U+202F",
   "U+205F", "U+3000"}

LowerCase == <<"a", "b", "c", "d", "e", "f", "g", "h", "i", "j", "k", "l", "m",
               "n", "o", "p", "q", "r", "s", "t", "u", "v", "w", "x", "y", "z">>

UpperCase == <<"A", "B", "C", "D", "E", "F", "G", "H", "I", "J", "K", "L", "M",
               "N", "O", "P", "Q", "R", "S", "T", "U", "V", "W", "X", "Y", "Z">>

Digits == {"0", "1", "2", "3", "4", "5", "6", "7", "8", "9"}

\* The CJK characters of the patterns: da an shi xuan ze.
CJK == {"U+7B54", "U+6848", "U+662F", "U+9009", "U+62E9"}

\* The full-width colon of the patterns; it is punctuation, not a word character.
FullColon == "U+FF1A"

\* str.upper on the cased characters outside ASCII that the model's texts may
\* hold: e acute, Cyrillic a, sharp s (to SS), a with right half ring (to A and
\* the half ring: the one character outside a-d whose upper case holds one of
\* A-D), dotless i (to I) and long s (to S).
UpperOutsideASCII == <<
  <<"U+00E9", <<"U+00C9">>>>,
  <<"U+0430", <<"U+0410">>>>,
  <<"U+00DF", <<"S", "S">>>>,
  <<"U+1E9A", <<"A", "U+02BE">>>>,
  <<"U+0131", <<"I">>>>,
  <<"U+017F", <<"S">>>> >>

\* The letters and digits outside ASCII that the model's texts may hold, beside
\* the CJK of the patterns: the cased characters above and their upper cases,
\* the modifier letter half ring, the ideograph zhong, the Arabic-Indic digit one.
WordOutsideASCII ==
  {"U+00E9", "U+00C9", "U+0430", "U+0410", "U+00DF", "U+1E9A", "U+02BE",
   "U+0131", "U+017F", "U+4E2D", "U+0661"}

Range(f) == {f[ix] : ix \in DOMAIN f}

\* The regular expressions' \w on a str pattern: str.isalnum or the underscore.
WordChars ==
  Range(LowerCase) \cup Range(UpperCase) \cup Digits \cup {"_"} \cup CJK
    \cup WordOutsideASCII

\* str.upper on one character: a str of one character or more.
upper_char(c) ==
  IF \E n \in 1..26 : LowerCase[n] = c
  THEN <<UpperCase[CHOOSE n \in 1..26 : LowerCase[n] = c]>>
  ELSE IF \E n \in DOMAIN UpperOutsideASCII : UpperOutsideASCII[n][1] = c
  THEN UpperOutsideASCII[CHOOSE n \in DOMAIN UpperOutsideASCII : UpperOutsideASCII[n][1] = c][2]
  ELSE <<c>>

RECURSIVE upper(_)
upper(s) == IF s = <<>> THEN <<>> ELSE upper_char(Head(s)) \o upper(Tail(s))

strip(s) ==
  LET keep == {ix \in 1..Len(s) : s[ix] \notin Whitespace}
  IN  IF keep = {} THEN <<>>
      ELSE LET lo == CHOOSE ix \in keep : \A j \in keep : ix <= j
               hi == CHOOSE ix \in keep : \A j \in keep : j <= ix
           IN  SubSeq(s, lo, hi)

\* ------------------------------------------------------ regular expressions

\* The literal lit stands in s at position ix.
LitAt(s, ix, lit) ==
  /\ ix + Len(lit) - 1 <= Len(s)
  /\ \A j \in 1..Len(lit) : s[ix + j - 1] = lit[j]

\* The position after a greedy \s* that starts at ix.
SkipWs(s, ix) ==
  CHOOSE j \in ix..(Len(s) + 1) :
    /\ \A k \in ix..(j - 1) : s[k] \in Whitespace
    /\ j = Len(s) + 1 \/ s[j] \notin Whitespace

\* $ without MULTILINE: the end of the text, or before a final newline.
AtEnd(s, ix) == ix = Len(s) + 1 \/ (ix = Len(s) /\ s[ix] = "\n")

LetterAt(s, ix) == ix >= 1 /\ ix <= Len(s) /\ s[ix] \in Letters

\* The position of the captured letter when pattern p matches s from position ix,
\* and 0 when it does not.
MatchAt(p, s, ix) ==
  CASE p.kind = "marker" ->
         IF LitAt(s, ix, p.lit)
         THEN LET k == IF p.ws THEN SkipWs(s, ix + Len(p.lit)) ELSE ix + Len(p.lit)
              IN  IF LetterAt(s, k) /\ LitAt(s, k + 1, p.tail) THEN k ELSE 0
         ELSE 0
    [] p.kind = "letter_dot" ->
         IF ix = 1 /\ LetterAt(s, 1)
            /\ (AtEnd(s, 2) \/ (Len(s) >= 2 /\ s[2] = "." /\ AtEnd(s, 3)))
         THEN 1 ELSE 0
    [] p.kind = "letter_sep" ->
         IF ix = 1 /\ LetterAt(s, 1)
         THEN LET k == SkipWs(s, 2)
              IN  IF k <= Len(s) /\ s[k] \in {"-", ":"} THEN 1 ELSE 0
         ELSE 0
    [] p.kind = "letter_ws" ->
         IF ix = 1
         THEN LET k == SkipWs(s, 1)
              IN  IF LetterAt(s, k) /\ AtEnd(s, SkipWs(s, k + 1)) THEN k ELSE 0
         ELSE 0

\* re.search(pattern, response), then match.group(1): the letter captured by the
\* leftmost match, None without a match.
Search(p, s) ==
  LET at == [ix \in 1..Len(s) |-> MatchAt(p, s, ix)]
      hits == {ix \in 1..Len(s) : at[ix] # 0}
  IN  IF hits = {} THEN None
      ELSE <<s[at[CHOOSE ix \in hits : \A j \in hits : ix <= j]]>>

Boxed == <<"\\", "B", "O", "X", "E", "D", "{">>

AnswerIs == <<"A", "N", "S", "W", "E", "R", " ", "I", "S">>

AnswerColon == <<"A", "N", "S", "W", "E", "R", ":">>

TheCorrectAnswerIs == <<"T", "H", "E", " ", "C", "O", "R", "R", "E", "C", "T", " ">> \o AnswerIs

Marker(lit, ws, tail) == [kind |-> "marker", lit |-> lit, ws |-> ws, tail |-> tail]

Anchored(kind) == [kind |-> kind, lit |-> <<>>, ws |-> FALSE, tail |-> <<>>]

patterns == <<
  Marker(Boxed, FALSE, <<"}">>),
  Marker(<<"U+7B54", "U+6848", "U+662F">>, TRUE, <<>>),
  Marker(<<"U+9009", "U+62E9">>, TRUE, <<>>),
  Marker(<<"U+7B54", "U+6848", FullColon>>, TRUE, <<>>),
  Marker(<<"U+9009", "U+62E9", FullColon>>, TRUE, <<>>),
  Marker(TheCorrectAnswerIs, TRUE, <<>>),
  Marker(AnswerColon, TRUE, <<>>),
  Marker(AnswerIs, TRUE, <<>>),
  Anchored("letter_dot"),
  Anchored("letter_sep"),
  Anchored("letter_ws") >>

\* -------------------------------------------------------------- the tiers

\* Method 1: the whole text is one of the letters.
Tier1(s) == IF s \in Choices THEN s ELSE None

RECURSIVE FirstMatch(_, _)
\* for pattern in patterns, from the k-th pattern on: the capture of the first
\* one that matches.
FirstMatch(s, k) ==
  IF k > Len(patterns) THEN None
  ELSE LET match == Search(patterns[k], s)
       IN  IF match # None THEN match ELSE FirstMatch(s, k + 1)

\* Method 2: the first pattern of the list that matches.
Tier2(s) == FirstMatch(s, 1)

\* re.findall(r'\b([ABCD])\b', response): the positions of the standalone letters.
Standalone(s) ==
  {ix \in 1..Len(s) :
     /\ s[ix] \in Letters
     /\ ix = 1 \/ s[ix - 1] \notin WordChars
     /\ ix = Len(s) \/ s[ix + 1] \notin WordChars}

\* Method 3: the last standalone letter.
Tier3(s) ==
  LET found == Standalone(s)
  IN  IF found = {} THEN None
      ELSE <<s[CHOOSE ix \in found : \A j \in found : j <= ix]>>

\* Method 4: the first character that is a letter.
Tier4(s) ==
  LET found == {ix \in 1..Len(s) : s[ix] \in Letters}
  IN  IF found = {} THEN None
      ELSE <<s[CHOOSE ix \in found : \A j \in found : ix <= j]>>

\* response.strip().upper()
Normalize(s) == upper(strip(s))

\* extract_answer with the last standalone letter tried before the patterns.
extract_answer_letters_first(response) ==
  IF response = None \/ response = <<>> THEN None
  ELSE LET s == Normalize(response)
       IN  IF Tier1(s) # None THEN Tier1(s)
           ELSE IF Tier3(s) # None THEN Tier3(s)
           ELSE IF Tier2(s) # None THEN Tier2(s)
           ELSE Tier4(s)

\* extract_answer without its last method.
extract_answer_no_fallback(response) ==
  IF response = None \/ response = <<>> THEN None
  ELSE LET s == Normalize(response)
       IN  IF Tier1(s) # None THEN Tier1(s)
           ELSE IF Tier2(s) # None THEN Tier2(s)
           ELSE Tier3(s)

extract_answer(response) ==
  IF response = None \/ response = <<>> THEN None
  ELSE LET s == Normalize(response)
           method1 == Tier1(s)
           method2 == Tier2(s)
           method3 == Tier3(s)
       IN  IF method1 # None THEN method1
           ELSE IF method2 # None THEN method2
           ELSE IF method3 # None THEN method3
           ELSE Tier4(s)

\* ---------------------------------------------------- the extractor's inputs

\* The fragments the generated response texts are made of: letters in both cases,
\* blanks and punctuation, an ideographic space, a letter outside ASCII, a letter
\* whose upper case holds an A, and the phrases the patterns look for.
Fragments == {
  <<"A">>,
  <<"b">>,
  <<" ">>,
  <<".">>,
  <<":">>,
  <<"-">>,
  <<"\n">>,
  <<"U+3000">>,
  <<"U+00E9">>,
  <<"U+1E9A">>,
  <<"\\", "b", "o", "x", "e", "d", "{", "D", "}">>,
  <<"a", "n", "s", "w", "e", "r", " ", "i", "s">>,
  <<"A", "n", "s", "w", "e", "r", ":">>,
  <<"t", "h", "e", " ", "c", "o", "r", "r", "e", "c", "t", " ">>,
  <<"U+7B54", "U+6848", "U+662F">>,
  <<"U+9009", "U+62E9">>,
  <<"U+7B54", "U+6848", "U+FF1A">>,
  <<"U+9009", "U+62E9", "U+FF1A">> }

\* The responses of the documented examples.
ExampleAnswerIsB == <<"T", "h", "e", " ", "a", "n", "s", "w", "e", "r", " ", "i", "s", " ", "B", " ", "a", "n", "d", " ", "n", "o", "t", " ", "A">>

ExampleIThink == <<"I", " ", "t", "h", "i", "n", "k", " ", "t", "h", "e", " ", "a", "n", "s", "w", "e", "r", " ", "i", "s", " ", "B", ".">>

ExampleNoLetter == <<"X", "Y", "Z", "7", "8", "9">>

Examples == {ExampleAnswerIsB, ExampleIThink, ExampleNoLetter}

\* Texts on which the characters outside ASCII decide: a carriage return and an
\* ideographic space under \s*, letters outside ASCII beside a letter under \b,
\* and upper cases that make or complete a pattern.
OutsideASCII == {
  <<"a", "n", "s", "w", "e", "r", " ", "i", "s", "\r", "c", " ", "d">>,
  <<"a", "n", "s", "w", "e", "r", " ", "i", "s", "U+3000", "c", " ", "d">>,
  <<"b", " ", "U+00E9", "a">>,
  <<"b", " ", "U+4E2D", "a">>,
  <<"b", " ", "U+0661", "a">>,
  <<"c", " ", "U+00DF", "a">>,
  <<"U+1E9A">>,
  <<"a", "n", "s", "w", "e", "r", " ", "U+0131", "U+017F", " ", "b", " ", "c">>,
  <<"U+000B", "d", "U+0085">> }

RECURSIVE Concats(_)
Concats(n) ==
  IF n = 0 THEN {<<>>}
  ELSE LET shorter == Concats(n - 1)
       IN  shorter \cup {c \o f : c \in shorter, f \in Fragments}

\* What extract_answer is called with: None, or a text.
ExtractInputs == {None} \cup Concats(MaxParts) \cup Examples \cup OutsideASCII

\* ------------------------------------------------------------ dataset files

\* The column names 'input' and 'target'.
input == <<"i", "n", "p", "u", "t">>

target == <<"t", "a", "r", "g", "e", "t">>

required_columns == <<input, <<"A">>, <<"B">>, <<"C">>, <<"D">>, target>>

\* The header lines of the files: the required columns, the same without
\* target, and the required columns with input as the last one.
Headers ==
  {required_columns, SubSeq(required_columns, 1, 5),
   <<<<"A">>, <<"B">>, <<"C">>, <<"D">>, target, input>>}

\* A data line with all six cells, each cell a str.
FullLine == <<<<"q">>, <<"a">>, <<"b">>, <<"c">>, <<"d">>, <<"A">>>>

\* The data lines of the files: complete lines, lines that end before the last
\* cell, and complete lines whose last cell is the text None.
Lines ==
  {FullLine, SubSeq(FullLine, 1, 5), [FullLine EXCEPT ![6] = <<"N", "o", "n", "e">>]}

RECURSIVE SeqsUpTo(_, _)
SeqsUpTo(S, n) ==
  IF n = 0 THEN {<<>>}
  ELSE LET shorter == SeqsUpTo(S, n - 1)
       IN  shorter \cup {Append(q, e) : q \in {r \in shorter : Len(r) = n - 1}, e \in S}

\* A file: whether open and csv can read it, the cells of its first line (<<>>
\* in a file without any line) and the cells of each line after it.
Files ==
  {[readable |-> r, header |-> <<>>, lines |-> <<>>] : r \in BOOLEAN}
  \cup [readable : {TRUE}, header : Headers, lines : SeqsUpTo(Lines, MaxRows)]

\* The paths of the dataset files, as path components and suffixes.
Paths == {<<"b", ".csv">>, <<"a", ".csv", ".csv">>, <<"sub", "/", "a", ".csv">>}

\* os.path.basename
basename(p) ==
  LET seps == {j \in 1..Len(p) : p[j] = "/"}
  IN  IF seps = {} THEN p
      ELSE SubSeq(p, (CHOOSE j \in seps : \A k \in seps : k <= j) + 1, Len(p))

RECURSIVE Without(_, _)
\* str.replace(tok, '')
Without(p, tok) ==
  IF p = <<>> THEN <<>>
  ELSE IF Head(p) = tok THEN Without(Tail(p), tok)
  ELSE <<Head(p)>> \o Without(Tail(p), tok)

DatasetName(p) == Without(basename(p), ".csv")

\* dict(zip(fieldnames, row)): of the columns of one name, the last one counts.
ColumnIndex(names, k) ==
  CHOOSE c \in 1..Len(names) : names[c] = k /\ \A e \in (c + 1)..Len(names) : names[e] # k

RECURSIVE NonBlank(_, _)
\* The numbers, from j on, of the lines that have a cell: DictReader skips the
\* lines that have none.
NonBlank(lines, j) ==
  IF j > Len(lines) THEN <<>>
  ELSE (IF lines[j] = <<>> THEN <<>> ELSE <<j>>) \o NonBlank(lines, j + 1)

\* csv.DictReader: one dict per data line, keyed by the header's names.  A line
\* with fewer cells than the header has its missing values None (restval); a
\* line with more has the list of the surplus cells under the key None
\* (restkey).  line is the number of the data line in the file.
DictReader(file) ==
  LET at == NonBlank(file.lines, 1)
      known == Len(file.header)
  IN  [n \in 1..Len(at) |->
         LET cells == file.lines[at[n]]
         IN  [line |-> at[n],
              d |-> [k \in Range(file.header)
                            \cup (IF Len(cells) > known THEN {None} ELSE {}) |->
                       IF k = None THEN SubSeq(cells, known + 1, Len(cells))
                       ELSE LET c == ColumnIndex(file.header, k)
                            IN  IF c <= Len(cells) THEN cells[c] ELSE None]]]

\* random.sample(rows, k): k rows at pairwise distinct positions, in any order.
Samples(rs, k) ==
  {[j \in 1..k |-> rs[f[j]]] :
     f \in {g \in [1..k -> 1..Len(rs)] : \A a, b \in 1..k : a # b => g[a] # g[b]}}

\* ------------------------------------------------------------ the model call

\* What the endpoint answers with, when it answers with status 200 and a body
\* of the expected shape.
Contents == {<<"A">>, <<" ", "b", ".">>, <<"?">>}

\* A call's outcome: a 200 response with its content, another status, or an
\* exception of the transport or of the decoding.
ApiOutcomes ==
  [kind : {"ok"}, content : Contents]
  \cup [kind : {"status", "exception"}, content : {<<>>}]

call_api(outcome) ==
  IF outcome.kind = "ok" THEN strip(outcome.content) ELSE None

\* ----------------------------------------------------------------- fractions

RECURSIVE GCD(_, _)
GCD(a, b) == IF b = 0 THEN a ELSE GCD(b, a % b)

\* The quotient c / t, in lowest terms.
Div(c, t) == <<c \div GCD(c, t), t \div GCD(c, t)>>

\* 0.0
Zero == <<0, 1>>

\* --------------------------------------------------------- evaluate_dataset

NewResults ==
  [correct |-> 0, total |-> 0, accuracy |-> Zero, details |-> <<>>, errors |-> <<>>]

\* args.sample_size: <<>> for None, <<n>> for an integer.
SampleSizes == {<<>>} \cup {<<n>> : n \in (-1)..MaxRows}

\* if sample_size and sample_size < len(rows)
Sampling(ss, n) == ss # <<>> /\ ss[1] # 0 /\ ss[1] < n

\* Begin without the check of the column names.
BeginUnchecked(file, ss) ==
  IF ~file.readable
  THEN [ret |-> "exception", fieldnames |-> <<>>, n |-> 0, rows |-> {<<>>}]
  ELSE IF DictReader(file) = <<>>
  THEN [ret |-> "empty", fieldnames |-> file.header, n |-> 0, rows |-> {<<>>}]
  ELSE LET read == DictReader(file)
       IN  IF Sampling(ss, Len(read))
           THEN IF ss[1] < 0
                THEN [ret |-> "exception", fieldnames |-> file.header,
                      n |-> Len(read), rows |-> {read}]
                ELSE [ret |-> "none", fieldnames |-> file.header,
                      n |-> Len(read), rows |-> Samples(read, ss[1])]
           ELSE [ret |-> "none", fieldnames |-> file.header,
                 n |-> Len(read), rows |-> {read}]

\* evaluate_dataset up to its row loop: the return statement it leaves by ("none"
\* when it enters the loop), reader.fieldnames, len(rows) as read, and the lists
\* the loop may run over.
Begin(file, ss) ==
  IF ~file.readable
  THEN [ret |-> "exception", fieldnames |-> <<>>, n |-> 0, rows |-> {<<>>}]
  ELSE IF DictReader(file) = <<>>
  THEN [ret |-> "empty", fieldnames |-> file.header, n |-> 0, rows |-> {<<>>}]
  ELSE LET read == DictReader(file)
           missing_columns == {c \in Range(required_columns) : c \notin Range(file.header)}
       IN  IF missing_columns # {}
           THEN [ret |-> "missing_columns", fieldnames |-> file.header,
                 n |-> Len(read), rows |-> {read}]
           ELSE IF Sampling(ss, Len(read))
           THEN IF ss[1] < 0
                THEN [ret |-> "exception", fieldnames |-> file.header,
                      n |-> Len(read), rows |-> {read}]
                ELSE [ret |-> "none", fieldnames |-> file.header,
                      n |-> Len(read), rows |-> Samples(read, ss[1])]
           ELSE [ret |-> "none", fieldnames |-> file.header,
                 n |-> Len(read), rows |-> {read}]

\* One turn of the row loop, on the row at index idx (from 0): st holds results
\* and the number of requests posted so far.
RowStep(st, row, idx, outcome) ==
  IF \E k \in Range(required_columns) : k \notin DOMAIN row
  THEN st
  ELSE LET response == call_api(outcome)
           predicted_answer == extract_answer(response)
           is_correct == predicted_answer = row[target]
           detail == [question_id |-> idx + 1,
                      question |-> row[input],
                      options |-> [k \in Letters |-> row[<<k>>]],
                      correct_answer |-> row[target],
                      predicted_answer |-> predicted_answer,
                      raw_response |-> response,
                      is_correct |-> is_correct]
       IN  [calls |-> st.calls + 1,
            results |->
              [st.results EXCEPT
                 !.total = @ + 1,
                 !.correct = IF is_correct THEN @ + 1 ELSE @,
                 !.details = Append(@, detail),
                 !.errors = IF is_correct THEN @ ELSE Append(@, detail)]]

\* WithAccuracy with the floor division of integers.
WithFloorAccuracy(res) ==
  IF res.total > 0 THEN [res EXCEPT !.accuracy = <<res.correct \div res.total, 1>>] ELSE res

\* After the loop: the accuracy, when a row was counted.
WithAccuracy(res) ==
  IF res.total > 0 THEN [res EXCEPT !.accuracy = Div(res.correct, res.total)] ELSE res

RECURSIVE RowLoop(_, _, _, _)
\* The row loop from index idx on, the call for the row at index j ending as outs[j + 1].
RowLoop(st, rs, outs, idx) ==
  IF idx = Len(rs) THEN st
  ELSE RowLoop(RowStep(st, rs[idx + 1].d, idx, outs[idx + 1]), rs, outs, idx + 1)

\* print_summary raises on results: one of the first errors it prints has a
\* question that is None, which it slices.
print_summary_raises(res) ==
  \E k \in 1..Len(res.errors) : k <= 5 /\ res.errors[k].question = None

\* What main reads of a call of evaluate_dataset: how it returned, the requests
\* it posted, the counts of its results, and whether print_summary raises on them.
Report(b, st) ==
  [ret |-> b.ret, fieldnames |-> b.fieldnames, calls |-> st.calls,
   correct |-> st.results.correct, total |-> st.results.total,
   accuracy |-> st.results.accuracy, raises |-> print_summary_raises(st.results)]

\* evaluate_dataset(csv_file, sample_size), for every file, every choice of the
\* sample and every outcome of every call.
evaluate_dataset(ss) ==
  UNION {
    LET b == Begin(file, ss)
        st0 == [calls |-> 0, results |-> NewResults]
    IN  IF b.ret # "none" THEN {Report(b, st0)}
        ELSE {LET st == RowLoop(st0, rs, outs, 0)
              IN  Report([b EXCEPT !.ret = "end"],
                         [st EXCEPT !.results = WithAccuracy(st.results)]) :
                rs \in b.rows, outs \in [1..b.n -> ApiOutcomes]} :
    file \in Files}

\* The pairs of a sample_size and a report of evaluate_dataset called with it.
Returned == UNION {{<<ss, r>> : r \in evaluate_dataset(ss)} : ss \in SampleSizes}

\* ------------------------------------------------------------ the extractor

ExtractInit ==
  /\ ex_response \in ExtractInputs
  /\ ex_result = None
  /\ ex_pc = "call"

Extract ==
  /\ ex_pc = "call"
  /\ ex_result' = extract_answer(ex_response)
  /\ ex_pc' = "done"
  /\ UNCHANGED <<ex_response, entry, sample_size, pc, call_vars, main_vars>>

\* ------------------------------------------------- one call of the evaluator

RunInit ==
  /\ entry \in {"evaluate_dataset", "main"}
  /\ sample_size \in SampleSizes
  /\ pc = IF entry = "main" THEN "main" ELSE "call"
  /\ fieldnames = <<>>
  /\ file_rows = 0
  /\ rows = <<>>
  /\ i = 0
  /\ results = NewResults
  /\ ret = "none"
  /\ calls = 0
  /\ nfiles = 0
  /\ dataset_name = <<>>
  /\ returns = <<>>
  /\ overall_results =
       [total_correct |-> 0, total_questions |-> 0, dataset_results |-> <<>>]

\* evaluate_dataset is called: it reads the file and enters its row loop, or
\* returns before it.
Call(file) ==
  /\ pc = "call"
  /\ LET b == Begin(file, sample_size)
     IN  /\ ret' = b.ret
         /\ fieldnames' = b.fieldnames
         /\ file_rows' = b.n
         /\ rows' \in b.rows
         /\ pc' = IF b.ret = "none" THEN "rows" ELSE "ret"
  /\ UNCHANGED <<ex_vars, entry, sample_size, i, results, calls, main_vars>>

\* One turn of the row loop.
EvaluateRow(outcome) ==
  /\ pc = "rows"
  /\ i < Len(rows)
  /\ LET st == RowStep([calls |-> calls, results |-> results], rows[i + 1].d, i, outcome)
     IN  /\ results' = st.results
         /\ calls' = st.calls
  /\ i' = i + 1
  /\ UNCHANGED <<ex_vars, entry, sample_size, pc, fieldnames, file_rows, rows, ret, main_vars>>

\* The row loop is over: evaluate_dataset computes the accuracy and returns.
EvaluateReturn ==
  /\ pc = "rows"
  /\ i = Len(rows)
  /\ results' = WithAccuracy(results)
  /\ ret' = "end"
  /\ pc' = "ret"
  /\ UNCHANGED <<ex_vars, entry, sample_size, fieldnames, file_rows, rows, i, calls, main_vars>>

\* ------------------------------------------------------------------- main

\* main's loop takes a path that does not exist.
MainSkipMissing ==
  /\ pc = "main"
  /\ nfiles < MaxFiles
  /\ nfiles' = nfiles + 1
  /\ UNCHANGED <<ex_vars, entry, sample_size, pc, call_vars, dataset_name, returns, overall_results>>

\* main's loop takes an existing file: it evaluates the dataset, saves and
\* prints the results, and adds them to the overall ones.
MainDataset(path, p) ==
  LET r == p[2] IN
  /\ pc = "main"
  /\ p[1] = sample_size
  /\ nfiles < MaxFiles
  /\ ~r.raises
  /\ nfiles' = nfiles + 1
  /\ dataset_name' = DatasetName(path)
  /\ ret' = r.ret
  /\ fieldnames' = r.fieldnames
  /\ calls' = r.calls
  /\ overall_results' =
       [overall_results EXCEPT
          !.total_correct = @ + r.correct,
          !.total_questions = @ + r.total,
          !.dataset_results =
             (DatasetName(path) :> [accuracy |-> r.accuracy,
                                    correct |-> r.correct,
                                    total |-> r.total]) @@ @]
  /\ returns' = Append(returns, r.ret)
  /\ UNCHANGED <<ex_vars, entry, sample_size, pc, file_rows, rows, i, results>>

\* main's loop takes an existing file, evaluates the dataset and saves its
\* results; print_summary raises a TypeError, which ends the run before the
\* overall results are touched.
MainRaise(path, p) ==
  LET r == p[2] IN
  /\ pc = "main"
  /\ p[1] = sample_size
  /\ nfiles < MaxFiles
  /\ r.raises
  /\ nfiles' = nfiles + 1
  /\ dataset_name' = DatasetName(path)
  /\ ret' = r.ret
  /\ fieldnames' = r.fieldnames
  /\ calls' = r.calls
  /\ returns' = Append(returns, r.ret)
  /\ pc' = "raised"
  /\ UNCHANGED <<ex_vars, entry, sample_size, file_rows, rows, i, results, overall_results>>

\* dataset_files is exhausted: main computes the overall accuracy and writes the
\* overall result.
Finish ==
  /\ pc = "main"
  /\ overall_results' =
       IF overall_results.total_questions > 0
       THEN overall_results @@
              ("overall_accuracy" :>
                 Div(overall_results.total_correct, overall_results.total_questions))
       ELSE overall_results
  /\ pc' = "done"
  /\ UNCHANGED <<ex_vars, entry, sample_size, call_vars, nfiles, dataset_name, returns>>

\* ---------------------------------------------------------- specifications

\* The extractor on its own inputs; the run's variables stay as they start.
InitExtract ==
  /\ entry = "main"
  /\ sample_size = <<>>
  /\ RunInit
  /\ ExtractInit

SpecExtract == InitExtract /\ [][Extract]_vars

Init ==
  /\ RunInit
  /\ ex_response = None /\ ex_result = None /\ ex_pc = "done"

Next ==
  \/ \E file \in Files : Call(file)
  \/ \E outcome \in ApiOutcomes : EvaluateRow(outcome)
  \/ EvaluateReturn
  \/ MainSkipMissing
  \/ \E path \in Paths, p \in Returned : MainDataset(path, p)
  \/ \E path \in Paths, p \in Returned : MainRaise(path, p)
  \/ Finish

\* One call of evaluate_dataset, or one run of main.
Spec == Init /\ [][Next]_vars

\* ------------------------------------------------------------------ claims

\* The text extract_answer works on, when it was given one that is not empty.
ExtractedFrom == Normalize(ex_response)

\* The patterns that match s while no pattern before them in the list does.
FirstMatching(s) ==
  LET found == [k \in 1..Len(patterns) |-> Search(patterns[k], s)]
  IN  {k \in 1..Len(patterns) :
         found[k] # None /\ \A j \in 1..(k - 1) : found[j] = None}

\* C2: extract_answer returns the match of the earliest tier that matches: the
\* whole text when it is one letter; else the capture of the first pattern of
\* the list that matches (boxed, the four Chinese markers, THE CORRECT ANSWER IS,
\* ANSWER:, ANSWER IS, letter with optional period, letter then colon or dash,
\* letter within whitespace); else the last standalone letter; else the first
\* letter character.  'The answer is B and not A' yields B.
C2_EarliestTierWins ==
  (ex_pc = "done" /\ ex_response # None /\ ex_response # <<>>) =>
    LET s == ExtractedFrom
        whole == s \in Choices
        first == FirstMatching(s)
        alone == Standalone(s)
        any == {n \in 1..Len(s) : s[n] \in Letters}
    IN  /\ whole => ex_result = s
        /\ ~whole => \A k \in first : ex_result = Search(patterns[k], s)
        /\ (~whole /\ first = {} /\ alone # {}) =>
             \E n \in alone : ex_result = <<s[n]>> /\ \A m \in alone : m <= n
        /\ (~whole /\ first = {} /\ alone = {} /\ any # {}) =>
             \E n \in any : ex_result = <<s[n]>> /\ \A m \in any : n <= m
        /\ ex_response = ExampleAnswerIsB => ex_result = <<"B">>

\* C2's case: the example, where the pattern ANSWER IS captures B although the
\* last standalone letter is A.
C2_Witness ==
  /\ ex_pc = "done"
  /\ ex_response = ExampleAnswerIsB
  /\ ex_result = <<"B">>
  /\ Tier3(ExtractedFrom) = <<"A">>

\* C9: extract_answer returns None exactly when the response is None, empty, or
\* its stripped upper-case text holds none of A, B, C, D; otherwise it returns
\* one of these letters, and one that occurs in that text.
C9_NoneIffNoLetter ==
  ex_pc = "done" =>
    LET absent == ex_response = None \/ ex_response = <<>>
        s == ExtractedFrom
    IN  /\ ex_result = None <=> (absent \/ \A n \in 1..Len(s) : s[n] \notin Letters)
        /\ ex_result # None =>
             /\ ex_result \in Choices
             /\ \E n \in 1..Len(s) : <<s[n]>> = ex_result

\* C9's case: a text with a letter that no pattern captures and that does not
\* stand alone, so that only the last method finds it.
C9_Witness ==
  /\ ex_pc = "done"
  /\ ex_response # None /\ ex_response # <<>>
  /\ Tier1(ExtractedFrom) = None
  /\ Tier2(ExtractedFrom) = None
  /\ Tier3(ExtractedFrom) = None
  /\ ex_result \in Choices

\* A row of the loop lacks a required field: csv.DictReader gave it None.
MissingField(row) == \E k \in Range(required_columns) : row.d[k] = None

\* C1: every entry of details has is_correct true exactly when predicted_answer
\* is not None and equals the row's target.
C1_CorrectIffPredictedIsTarget ==
  \A k \in 1..Len(results.details) :
    LET d == results.details[k]
    IN  d.is_correct <=>
          (d.predicted_answer # None /\ d.predicted_answer = d.correct_answer)

\* C3: a row that lacks a required field is skipped: no request is posted for
\* it, it is not appended to details and total does not count it.
C3_RowsMissingFieldsSkipped ==
  (pc \in {"rows", "ret"} /\ ret \in {"none", "end"}) =>
    LET complete == Cardinality({j \in 1..i : ~MissingField(rows[j])})
    IN  /\ results.total = complete
        /\ Len(results.details) = complete
        /\ calls = complete

\* C4: with N valid rows and a given sample_size s, 0 <= s < N, exactly s rows at
\* pairwise distinct lines are evaluated; without a sample_size, or with
\* s >= N, all N rows are evaluated in the order of the file.
C4_SampleSizeRowsEvaluated ==
  (pc = "ret" /\ ret = "end" /\ \A j \in 1..Len(rows) : ~MissingField(rows[j])) =>
    IF sample_size # <<>> /\ 0 <= sample_size[1] /\ sample_size[1] < file_rows
    THEN /\ results.total = sample_size[1]
         /\ Len(rows) = sample_size[1]
         /\ \A a, b \in 1..Len(rows) : a # b => rows[a].line # rows[b].line
    ELSE /\ results.total = file_rows
         /\ Len(rows) = file_rows
         /\ \A j \in 1..Len(rows) : rows[j].line = j

\* C5: whatever return statement evaluate_dataset leaves by, its results have
\* 0 <= correct <= total, both counted over the rows appended to details, and
\* accuracy = correct / total when total > 0 and 0.0 when total = 0.
C5_AccuracyOfReturnedResults ==
  pc = "ret" =>
    /\ results.total = Len(results.details)
    /\ results.correct =
         Cardinality({k \in 1..Len(results.details) : results.details[k].is_correct})
    /\ 0 <= results.correct /\ results.correct <= results.total
    /\ results.accuracy =
         IF results.total > 0 THEN Div(results.correct, results.total) ELSE Zero
    /\ 0 <= results.accuracy[1] /\ results.accuracy[1] <= results.accuracy[2]

\* C5's case: the loop ended with one row of two correct.
C5_Witness ==
  /\ pc = "ret"
  /\ ret = "end"
  /\ results.total = 2
  /\ results.correct = 1

RECURSIVE SumOver(_, _, _)
\* The sum of field f of the entries of the mapping m at the names of S.
SumOver(m, S, f) ==
  IF S = {} THEN 0
  ELSE LET name == CHOOSE x \in S : TRUE
       IN  m[name][f] + SumOver(m, S \ {name}, f)

\* C6: a run that ends with total_questions = 0 has overall_accuracy = 0.0 in its
\* overall result, and total_correct = 0.
C6_ZeroTotalHasOverallAccuracy ==
  (pc = "done" /\ overall_results.total_questions = 0) =>
    /\ overall_results.total_correct = 0
    /\ "overall_accuracy" \in DOMAIN overall_results
    /\ overall_results["overall_accuracy"] = Zero

\* C7: a row whose call fails is counted and appended with raw_response and
\* predicted_answer None and is scored incorrect; the call is made once, and
\* the loop goes on to the rows after it.
C7_FailedCallScoredIncorrect ==
  entry = "evaluate_dataset" =>
  /\ \A k \in 1..Len(results.details) :
       LET d == results.details[k]
       IN  d.raw_response = None =>
             (d.predicted_answer = None /\ ~d.is_correct /\ d \in Range(results.errors))
  /\ calls = results.total
  /\ (pc = "ret" /\ ret = "end") => i = Len(rows)

\* The column names lack one of the required ones.
LacksColumn(names) == \E c \in Range(required_columns) : c \notin Range(names)

ZeroEntry == [accuracy |-> Zero, correct |-> 0, total |-> 0]

\* C8: for a file that lacks a required column name, evaluate_dataset posts no
\* request, does not enter its row loop and returns the results it started
\* with (0, 0, 0.0, no details, no errors); main enters them for the dataset,
\* adds nothing to its totals, and is back at the head of its loop.
C8_MissingColumnsZeroResult ==
  /\ [](pc = "ret" /\ LacksColumn(fieldnames) =>
          /\ results = NewResults
          /\ calls = 0
          /\ i = 0)
  /\ [][(entry = "main" /\ returns' # returns /\ LacksColumn(fieldnames')) =>
          /\ calls' = 0
          /\ overall_results'.dataset_results[dataset_name'] = ZeroEntry
          /\ overall_results'.total_correct = overall_results.total_correct
          /\ overall_results'.total_questions = overall_results.total_questions
          /\ pc' = "main"]_vars

\* C8's case: main's first file lacked a column, and main went on to evaluate
\* the rows of its second file.
C8_Witness ==
  /\ entry = "main"
  /\ returns = <<"missing_columns", "end">>
  /\ calls > 0
  /\ overall_results.total_questions > 0

\* C10: at the end of a run, total_correct and total_questions are the sums of
\* correct and total over the entries of dataset_results.
C10_TotalsAreSumsOfDatasetResults ==
  pc = "done" =>
    LET m == overall_results.dataset_results
    IN  /\ overall_results.total_correct = SumOver(m, DOMAIN m, "correct")
        /\ overall_results.total_questions = SumOver(m, DOMAIN m, "total")
====
